---- MODULE Spec2Model ----
(***************************************************************************)
(* Model of rule.py: the rules of inference over boolean formulas          *)
(* (modus ponens, modus tollens, chain implication, dilemma, disjunction   *)
(* elimination / introduction, conjunction elimination / introduction)     *)
(* and their is_* checks.                                                  *)
(*                                                                         *)
(* Python values are modelled as records whose field names tell the        *)
(* Python type apart, so that == between a str and a list is FALSE as in   *)
(* Python:                                                                 *)
(*   'a'            (a str inside a tree)      [atom |-> "a"]              *)
(*   ['a']          (tree of a single variable) [top |-> "a"]              *)
(*   ['~', x]                                  [neg |-> x]                 *)
(*   [op, x, y]                                [op |-> op, l |-> x, r |-> y]*)
(* Text (a Python str holding a formula) is a sequence of characters.      *)
(***************************************************************************)
EXTENDS Integers, Sequences, FiniteSets, TLC

VARIABLES pc, fn, args, side, outcome, frames

vars == <<pc, fn, args, side, outcome, frames>>

(***************************************************************************)
(* Formulas handed to the rules                                            *)
(***************************************************************************)
MaxNeg == 1

AtomNames == {"a", "pq"}

\* the characters of a variable name
Chars(name) == IF name = "pq" THEN <<"p", "q">> ELSE <<name>>

Atom(name) == [atom |-> name]
Neg(f) == [neg |-> f]
Bin(o, f, g) == [op |-> o, l |-> f, r |-> g]

IsAtom(t) == "atom" \in DOMAIN t
IsTop(t) == "top" \in DOMAIN t
IsNeg(t) == "neg" \in DOMAIN t
IsBin(t) == "op" \in DOMAIN t
IsBad(t) == "bad" \in DOMAIN t

\* an input that is not a well-formed formula, e.g. the text "(a"
Malformed == [bad |-> "(a"]

RECURSIVE NegN(_, _)
NegN(f, j) == IF j = 0 THEN f ELSE Neg(NegN(f, j - 1))

Lits == {NegN(Atom(x), j) : x \in AtomNames, j \in 0..MaxNeg}

\* the formulas that occur as operands of the premises
Comp == Lits \cup {Bin(o, Atom("a"), Atom("pq")) : o \in {"&", "->"}}

\* premises of the rules with two premises
Premises2 == Comp \cup {Neg(x) : x \in Comp}
               \cup {Bin(o, x, y) : o \in {"->", "|"}, x \in Comp, y \in Comp}

\* premises of the rule with one premise
Premises1 == Premises2 \cup {Bin(o, x, y) : o \in {"&", "<->"}, x \in Comp, y \in Comp}

Comp3 == {Atom("a"), Atom("pq"), Neg(Atom("a")), Bin("&", Atom("a"), Atom("pq"))}

\* premises of the rule with three premises
Premises3 == {Atom("a")} \cup {Bin(o, x, y) : o \in {"->", "|"}, x \in Comp3, y \in Comp3}

Sides == {"right", "left", "middle"}

\* independent callers, whose calls interleave
NumCallers == 2

Callers == 1..NumCallers

\* the caller leaves the side out
Omitted == "omitted"

\* the value of the parameter side: 'right' is the default of disjunction_intro
SideParam(s) == IF s = Omitted THEN "right" ELSE s

(***************************************************************************)
(* logicparser: get_trees and recover_formula                              *)
(***************************************************************************)
\* the parse tree of one well-formed statement: a single variable parses to
\* a list of one element, any other statement to its prefix tree
ParseTree(f) == IF IsAtom(f) THEN [top |-> f.atom] ELSE f

\* get_trees raises SyntaxError iff one of the statements is malformed
SyntaxOK(inputs) == \A i \in DOMAIN inputs : ~IsBad(inputs[i])

get_trees(inputs) == [i \in DOMAIN inputs |-> ParseTree(inputs[i])]

OpChars(o) == CASE o = "->" -> <<"-", ">">>
                [] o = "<->" -> <<"<", "-", ">">>
                [] OTHER -> <<o>>

\* apply_func(tree, recover_formula_internal): every binary node in
\* parentheses, a negation and a variable as they are
RECURSIVE recover_formula_internal(_)
recover_formula_internal(t) ==
    IF IsAtom(t) THEN Chars(t.atom)
    ELSE IF IsTop(t) THEN Chars(t.top)
    ELSE IF IsNeg(t) THEN <<"~">> \o recover_formula_internal(t.neg)
    ELSE <<"(">> \o recover_formula_internal(t.l) \o OpChars(t.op)
              \o recover_formula_internal(t.r) \o <<")">>

\* recover_formula(prefix_tree): the outermost parentheses are dropped
recover_formula(t) ==
    LET s == recover_formula_internal(t)
    IN IF IsNeg(t) \/ IsTop(t) THEN s ELSE SubSeq(s, 2, Len(s) - 1)

\* Parsing of a text.  The statements read are those recover_formula and the
\* introduction rules write: a variable, a negation, a group in parentheses,
\* or two of these around one binary operator.
Letter(c) == \E name \in AtomNames : \E i \in DOMAIN Chars(name) : Chars(name)[i] = c

\* the index after the letters that start at i
RECURSIVE NameEnd(_, _)
NameEnd(s, i) == IF i <= Len(s) /\ Letter(s[i]) THEN NameEnd(s, i + 1) ELSE i

NoParse == [ok |-> FALSE, tree |-> Malformed, next |-> 0]

Parsed(t, n) == [ok |-> TRUE, tree |-> t, next |-> n]

\* the binary operator that starts at i, if any
OpAt(s, i) ==
    IF i > Len(s) THEN "none"
    ELSE IF s[i] \in {"&", "|"} THEN s[i]
    ELSE IF i + 1 <= Len(s) /\ SubSeq(s, i, i + 1) = <<"-", ">">> THEN "->"
    ELSE IF i + 2 <= Len(s) /\ SubSeq(s, i, i + 2) = <<"<", "-", ">">> THEN "<->"
    ELSE "none"

RECURSIVE ParseUnit(_, _), ParseFormula(_, _)
ParseUnit(s, i) ==
    IF i > Len(s) THEN NoParse
    ELSE IF s[i] = "~"
         THEN LET u == ParseUnit(s, i + 1)
              IN IF u.ok THEN Parsed(Neg(u.tree), u.next) ELSE NoParse
    ELSE IF s[i] = "("
         THEN LET f == ParseFormula(s, i + 1)
              IN IF f.ok /\ f.next <= Len(s) /\ s[f.next] = ")"
                 THEN Parsed(f.tree, f.next + 1) ELSE NoParse
    ELSE IF Letter(s[i])
         THEN LET n == NameEnd(s, i)
                  names == {name \in AtomNames : Chars(name) = SubSeq(s, i, n - 1)}
              IN IF names = {} THEN NoParse
                 ELSE Parsed(Atom(CHOOSE name \in names : TRUE), n)
    ELSE NoParse

ParseFormula(s, i) ==
    LET u == ParseUnit(s, i)
        o == IF u.ok THEN OpAt(s, u.next) ELSE "none"
    IN  IF ~u.ok \/ o = "none" THEN u
        ELSE LET v == ParseUnit(s, u.next + Len(OpChars(o)))
             IN IF v.ok THEN Parsed(Bin(o, u.tree, v.tree), v.next) ELSE NoParse

\* the formula a text stands for; Malformed when it is not a statement
Parse(s) ==
    LET f == ParseFormula(s, 1)
    IN IF f.ok /\ f.next = Len(s) + 1 THEN f.tree ELSE Malformed

(***************************************************************************)
(* Outcomes of a call                                                      *)
(***************************************************************************)
Returns(text) == [kind |-> "return", text |-> text, truth |-> FALSE]
ReturnsBool(b) == [kind |-> "bool", text |-> <<>>, truth |-> b]
Raises(k) == [kind |-> k, text |-> <<>>, truth |-> FALSE]

SyntaxError == Raises("SyntaxError")
ValueError == Raises("ValueError")
\* raise Exception("... cannot be applied to ..."): the rule does not apply
RuleError == Raises("Exception")

\* the text of a child of a tree: the variable itself when it is a str,
\* recover_formula of the subtree otherwise
ChildText(c) == IF IsAtom(c) THEN Chars(c.atom) ELSE recover_formula(c)

(***************************************************************************)
(* modus ponens                                                            *)
(***************************************************************************)
\* modus ponens that takes the first premise as the conditional, whatever the
\* lengths of the premises
modus_ponens_first_conditional(premise1, premise2) ==
    IF ~SyntaxOK(<<premise1, premise2>>) THEN SyntaxError
    ELSE
    LET trees == get_trees(<<premise1, premise2>>)
        conditional_tree == trees[1]
        antecedent_tree == trees[2]
        antecedent == recover_formula(trees[2])
    IN  IF ~(IsBin(conditional_tree) /\ conditional_tree.op = "->") THEN RuleError
        ELSE IF \/ (IsAtom(conditional_tree.l) /\ Chars(conditional_tree.l.atom) = antecedent)
                \/ conditional_tree.l = antecedent_tree
             THEN Returns(ChildText(conditional_tree.r))
             ELSE RuleError

\* modus ponens without the comparison of a primitive antecedent with the text
\* of the other premise
modus_ponens_tree_only(premise1, premise2) ==
    IF ~SyntaxOK(<<premise1, premise2>>) THEN SyntaxError
    ELSE
    LET trees == get_trees(<<premise1, premise2>>)
        formula0 == recover_formula(trees[1])
        formula1 == recover_formula(trees[2])
        first == Len(formula0) > Len(formula1)
        conditional_tree == IF first THEN trees[1] ELSE trees[2]
        antecedent_tree == IF first THEN trees[2] ELSE trees[1]
    IN  IF ~(IsBin(conditional_tree) /\ conditional_tree.op = "->") THEN RuleError
        ELSE IF conditional_tree.l = antecedent_tree
             THEN Returns(ChildText(conditional_tree.r))
             ELSE RuleError

modus_ponens(premise1, premise2) ==
    IF ~SyntaxOK(<<premise1, premise2>>) THEN SyntaxError
    ELSE
    LET trees == get_trees(<<premise1, premise2>>)
        formula0 == recover_formula(trees[1])
        formula1 == recover_formula(trees[2])
        first == Len(formula0) > Len(formula1)
        conditional_tree == IF first THEN trees[1] ELSE trees[2]
        antecedent_tree == IF first THEN trees[2] ELSE trees[1]
        antecedent == IF first THEN formula1 ELSE formula0
    IN  IF ~(IsBin(conditional_tree) /\ conditional_tree.op = "->") THEN RuleError
        ELSE IF \/ (IsAtom(conditional_tree.l) /\ Chars(conditional_tree.l.atom) = antecedent)
                \/ conditional_tree.l = antecedent_tree
             THEN Returns(ChildText(conditional_tree.r))
             ELSE RuleError

\* a try / except that lets the exception of the rule through
IsCheck_propagating(conclusion, applied) ==
    IF IsBad(conclusion) THEN SyntaxError
    ELSE IF applied.kind # "return" THEN applied
    ELSE ReturnsBool(applied.text = recover_formula(ParseTree(conclusion)))

\* the try / except of the is_* functions: the conclusion is parsed first,
\* then the rule is applied; SyntaxError is re-raised, any other exception is
\* passed over and leaves actual_conclusion = ''
IsCheck(conclusion, applied) ==
    IF IsBad(conclusion) THEN SyntaxError
    ELSE IF applied.kind = "SyntaxError" THEN SyntaxError
    ELSE LET actual_conclusion == IF applied.kind = "return" THEN applied.text ELSE <<>>
         IN ReturnsBool(actual_conclusion = recover_formula(ParseTree(conclusion)))

is_modus_ponens(premise1, premise2, conclusion) ==
    IsCheck(conclusion, modus_ponens(premise1, premise2))

(***************************************************************************)
(* modus tollens                                                           *)
(***************************************************************************)
\* modus tollens that takes the first premise as the conditional, whatever
\* the lengths of the premises
modus_tollens_first_conditional(premise1, premise2) ==
    IF ~SyntaxOK(<<premise1, premise2>>) THEN SyntaxError
    ELSE
    LET trees == get_trees(<<premise1, premise2>>)
        conditional_tree == trees[1]
        negated_consequent_tree == trees[2]
    IN  IF \/ ~(IsBin(conditional_tree) /\ conditional_tree.op = "->")
           \/ ~IsNeg(negated_consequent_tree)
        THEN RuleError
        ELSE IF negated_consequent_tree = Neg(conditional_tree.r)
             THEN Returns(recover_formula(Neg(conditional_tree.l)))
             ELSE RuleError

modus_tollens(premise1, premise2) ==
    IF ~SyntaxOK(<<premise1, premise2>>) THEN SyntaxError
    ELSE
    LET trees == get_trees(<<premise1, premise2>>)
        formula0 == recover_formula(trees[1])
        formula1 == recover_formula(trees[2])
        first == Len(formula0) > Len(formula1)
        conditional_tree == IF first THEN trees[1] ELSE trees[2]
        negated_consequent_tree == IF first THEN trees[2] ELSE trees[1]
    IN  IF \/ ~(IsBin(conditional_tree) /\ conditional_tree.op = "->")
           \/ ~IsNeg(negated_consequent_tree)
        THEN RuleError
        ELSE IF negated_consequent_tree = Neg(conditional_tree.r)
             THEN Returns(recover_formula(Neg(conditional_tree.l)))
             ELSE RuleError

\* a check of modus tollens that passes over every exception of the rule
is_modus_tollens_swallowing(premise1, premise2, conclusion) ==
    IF IsBad(conclusion) THEN SyntaxError
    ELSE LET applied == modus_tollens(premise1, premise2)
             actual_conclusion == IF applied.kind = "return" THEN applied.text ELSE <<>>
         IN ReturnsBool(actual_conclusion = recover_formula(ParseTree(conclusion)))

is_modus_tollens(premise1, premise2, conclusion) ==
    IsCheck(conclusion, modus_tollens(premise1, premise2))

(***************************************************************************)
(* chain implication                                                       *)
(***************************************************************************)
\* chain implication that tries the second premise before the first
chain_implication_second_first(premise1, premise2) ==
    IF ~SyntaxOK(<<premise1, premise2>>) THEN SyntaxError
    ELSE
    LET trees == get_trees(<<premise1, premise2>>)
        premise1_tree == trees[1]
        premise2_tree == trees[2]
    IN  IF \/ ~(IsBin(premise1_tree) /\ premise1_tree.op = "->")
           \/ ~(IsBin(premise2_tree) /\ premise2_tree.op = "->")
        THEN RuleError
        ELSE IF premise2_tree.r = premise1_tree.l
             THEN Returns(recover_formula(Bin("->", premise2_tree.l, premise1_tree.r)))
        ELSE IF premise1_tree.r = premise2_tree.l
             THEN Returns(recover_formula(Bin("->", premise1_tree.l, premise2_tree.r)))
        ELSE RuleError

\* chain implication that tries the premises in the order given only
chain_implication_one_way(premise1, premise2) ==
    IF ~SyntaxOK(<<premise1, premise2>>) THEN SyntaxError
    ELSE
    LET trees == get_trees(<<premise1, premise2>>)
        premise1_tree == trees[1]
        premise2_tree == trees[2]
    IN  IF \/ ~(IsBin(premise1_tree) /\ premise1_tree.op = "->")
           \/ ~(IsBin(premise2_tree) /\ premise2_tree.op = "->")
        THEN RuleError
        ELSE IF premise1_tree.r = premise2_tree.l
             THEN Returns(recover_formula(Bin("->", premise1_tree.l, premise2_tree.r)))
        ELSE RuleError

chain_implication(premise1, premise2) ==
    IF ~SyntaxOK(<<premise1, premise2>>) THEN SyntaxError
    ELSE
    LET trees == get_trees(<<premise1, premise2>>)
        premise1_tree == trees[1]
        premise2_tree == trees[2]
    IN  IF \/ ~(IsBin(premise1_tree) /\ premise1_tree.op = "->")
           \/ ~(IsBin(premise2_tree) /\ premise2_tree.op = "->")
        THEN RuleError
        ELSE IF premise1_tree.r = premise2_tree.l
             THEN Returns(recover_formula(Bin("->", premise1_tree.l, premise2_tree.r)))
        ELSE IF premise2_tree.r = premise1_tree.l
             THEN Returns(recover_formula(Bin("->", premise2_tree.l, premise1_tree.r)))
        ELSE RuleError

is_chain_implication(premise1, premise2, conclusion) ==
    IsCheck(conclusion, chain_implication(premise1, premise2))

(***************************************************************************)
(* dilemma                                                                 *)
(***************************************************************************)
\* a tree variable that still holds its initial []
NoTree == [none |-> TRUE]

Assigned(t) == ~("none" \in DOMAIN t)

IsOp(t, o) == IsBin(t) /\ t.op = o

\* the body of the inner loop: tree is looked at against the disjunction
DilemmaMatch(st, tree, disj) ==
    IF ~IsOp(tree, "->") THEN st
    ELSE IF tree.l = disj.l THEN [st EXCEPT !.conditional_tree1 = tree]
    ELSE IF tree.l = disj.r THEN [st EXCEPT !.conditional_tree2 = tree]
    ELSE st

RECURSIVE DilemmaInner(_, _, _, _)
DilemmaInner(trees, i, j, st) ==
    IF j > Len(trees) THEN st
    ELSE DilemmaInner(trees, i, j + 1, DilemmaMatch(st, trees[j], trees[i]))

\* the loop "for i in range(3)"
RECURSIVE DilemmaScan(_, _, _)
DilemmaScan(trees, i, st) ==
    IF i > Len(trees) THEN st
    ELSE IF IsOp(trees[i], "|")
         THEN DilemmaScan(trees, i + 1,
                  DilemmaInner(trees, i, 1, [st EXCEPT !.disjunction_tree = trees[i]]))
         ELSE DilemmaScan(trees, i + 1, st)

dilemma(premise1, premise2, premise3) ==
    IF ~SyntaxOK(<<premise1, premise2, premise3>>) THEN SyntaxError
    ELSE
    LET trees == get_trees(<<premise1, premise2, premise3>>)
        st == DilemmaScan(trees, 1, [disjunction_tree |-> NoTree,
                                     conditional_tree1 |-> NoTree,
                                     conditional_tree2 |-> NoTree])
    IN  IF /\ Assigned(st.disjunction_tree)
           /\ Assigned(st.conditional_tree1)
           /\ Assigned(st.conditional_tree2)
        THEN Returns(recover_formula(Bin("|", st.conditional_tree1.r, st.conditional_tree2.r)))
        ELSE RuleError

is_dilemma(premise1, premise2, premise3, conclusion) ==
    IsCheck(conclusion, dilemma(premise1, premise2, premise3))

(***************************************************************************)
(* disjunction elimination                                                 *)
(***************************************************************************)
\* disjunction elimination that looks for the negation of the left disjunct
\* only
disjunction_elim_left_only(premise1, premise2) ==
    IF ~SyntaxOK(<<premise1, premise2>>) THEN SyntaxError
    ELSE
    LET trees == get_trees(<<premise1, premise2>>)
        formula0 == recover_formula(trees[1])
        formula1 == recover_formula(trees[2])
        first == Len(formula0) > Len(formula1)
        disjunction_tree == IF first THEN trees[1] ELSE trees[2]
        negated_disjunct_tree == IF first THEN trees[2] ELSE trees[1]
    IN  IF ~IsOp(disjunction_tree, "|") THEN RuleError
        ELSE IF negated_disjunct_tree = Neg(disjunction_tree.l)
             THEN Returns(ChildText(disjunction_tree.r))
        ELSE RuleError

disjunction_elim(premise1, premise2) ==
    IF ~SyntaxOK(<<premise1, premise2>>) THEN SyntaxError
    ELSE
    LET trees == get_trees(<<premise1, premise2>>)
        formula0 == recover_formula(trees[1])
        formula1 == recover_formula(trees[2])
        first == Len(formula0) > Len(formula1)
        disjunction_tree == IF first THEN trees[1] ELSE trees[2]
        negated_disjunct_tree == IF first THEN trees[2] ELSE trees[1]
    IN  IF ~IsOp(disjunction_tree, "|") THEN RuleError
        ELSE IF negated_disjunct_tree = Neg(disjunction_tree.l)
             THEN Returns(ChildText(disjunction_tree.r))
        ELSE IF negated_disjunct_tree = Neg(disjunction_tree.r)
             THEN Returns(ChildText(disjunction_tree.l))
        ELSE RuleError

is_disjunction_elim(premise1, premise2, conclusion) ==
    IsCheck(conclusion, disjunction_elim(premise1, premise2))

(***************************************************************************)
(* disjunction introduction                                                *)
(***************************************************************************)
\* parentheses around everything but a variable, as with len(tree) < 2
Operand_negation_wrapped(tree) ==
    IF IsTop(tree) THEN recover_formula(tree)
    ELSE <<"(">> \o recover_formula(tree) \o <<")">>

\* len(tree) < 3: a variable or a negation is left as it is, anything else
\* is put in parentheses
Operand(tree) ==
    IF IsTop(tree) \/ IsNeg(tree) THEN recover_formula(tree)
    ELSE <<"(">> \o recover_formula(tree) \o <<")">>

disjunction_intro(premise1, statement, s) ==
    IF ~SyntaxOK(<<premise1, statement>>) THEN SyntaxError
    ELSE IF ~(s = "right" \/ s = "left") THEN ValueError
    ELSE
    LET trees == get_trees(<<premise1, statement>>)
        p == Operand(trees[1])
        q == Operand(trees[2])
    IN  IF s = "left" THEN Returns(q \o <<"|">> \o p)
        ELSE Returns(p \o <<"|">> \o q)

\* a check that leaves the tree of a primitive premise as the parser made it
is_disjunction_intro_no_unwrap(premise1, conclusion) ==
    IF ~SyntaxOK(<<premise1, conclusion>>) THEN SyntaxError
    ELSE
    LET trees == get_trees(<<premise1, conclusion>>)
        premise1_tree == trees[1]
        conclusion_tree == trees[2]
    IN  IF ~IsOp(conclusion_tree, "|") THEN ReturnsBool(FALSE)
        ELSE IF \/ conclusion_tree = Bin("|", premise1_tree, conclusion_tree.r)
                \/ conclusion_tree = Bin("|", conclusion_tree.l, premise1_tree)
             THEN ReturnsBool(TRUE)
             ELSE ReturnsBool(FALSE)

is_disjunction_intro(premise1, conclusion) ==
    IF ~SyntaxOK(<<premise1, conclusion>>) THEN SyntaxError
    ELSE
    LET trees == get_trees(<<premise1, conclusion>>)
        \* case where the premise is primitive: premise1_tree[0]
        premise1_tree == IF IsTop(trees[1]) THEN Atom(trees[1].top) ELSE trees[1]
        conclusion_tree == trees[2]
    IN  IF ~IsOp(conclusion_tree, "|") THEN ReturnsBool(FALSE)
        ELSE IF \/ conclusion_tree = Bin("|", premise1_tree, conclusion_tree.r)
                \/ conclusion_tree = Bin("|", conclusion_tree.l, premise1_tree)
             THEN ReturnsBool(TRUE)
             ELSE ReturnsBool(FALSE)

(***************************************************************************)
(* conjunction elimination                                                 *)
(***************************************************************************)
\* conjunction elimination that returns the other side
conjunction_elim_other_side(premise1, s) ==
    IF ~SyntaxOK(<<premise1>>) THEN SyntaxError
    ELSE IF s # "right" /\ s # "left" THEN ValueError
    ELSE
    LET conjunction_tree == get_trees(<<premise1>>)[1]
    IN  IF ~IsOp(conjunction_tree, "&") THEN RuleError
        ELSE IF s = "right" THEN Returns(ChildText(conjunction_tree.l))
        ELSE Returns(ChildText(conjunction_tree.r))

\* conjunction elimination that looks at the side after the premise
conjunction_elim_late_side_check(premise1, s) ==
    IF ~SyntaxOK(<<premise1>>) THEN SyntaxError
    ELSE
    LET conjunction_tree == get_trees(<<premise1>>)[1]
    IN  IF ~IsOp(conjunction_tree, "&") THEN RuleError
        ELSE IF s # "right" /\ s # "left" THEN ValueError
        ELSE IF s = "right" THEN Returns(ChildText(conjunction_tree.r))
        ELSE Returns(ChildText(conjunction_tree.l))

\* conjunction elimination that takes every side but 'right' as 'left'
conjunction_elim_any_side(premise1, s) ==
    IF ~SyntaxOK(<<premise1>>) THEN SyntaxError
    ELSE
    LET conjunction_tree == get_trees(<<premise1>>)[1]
    IN  IF ~IsOp(conjunction_tree, "&") THEN RuleError
        ELSE IF s = "right" THEN Returns(ChildText(conjunction_tree.r))
        ELSE Returns(ChildText(conjunction_tree.l))

conjunction_elim(premise1, s) ==
    IF ~SyntaxOK(<<premise1>>) THEN SyntaxError
    ELSE IF s # "right" /\ s # "left" THEN ValueError
    ELSE
    LET conjunction_tree == get_trees(<<premise1>>)[1]
    IN  IF ~IsOp(conjunction_tree, "&") THEN RuleError
        ELSE IF s = "right" THEN Returns(ChildText(conjunction_tree.r))
        ELSE Returns(ChildText(conjunction_tree.l))

\* the two applications share one try block: the first exception ends it,
\* SyntaxError is re-raised and any other exception is passed over
is_conjunction_elim(premise1, conclusion) ==
    IF IsBad(conclusion) THEN SyntaxError
    ELSE
    LET right == conjunction_elim(premise1, "right")
        left == conjunction_elim(premise1, "left")
        actual_conclusion1 == IF right.kind = "return" THEN right.text ELSE <<>>
        actual_conclusion2 == IF right.kind = "return" /\ left.kind = "return"
                              THEN left.text ELSE <<>>
        text == recover_formula(ParseTree(conclusion))
    IN  IF right.kind = "SyntaxError" THEN SyntaxError
        ELSE IF right.kind = "return" /\ left.kind = "SyntaxError" THEN SyntaxError
        ELSE ReturnsBool(actual_conclusion1 = text \/ actual_conclusion2 = text)

(***************************************************************************)
(* conjunction introduction                                                *)
(***************************************************************************)
conjunction_intro(premise1, premise2) ==
    IF ~SyntaxOK(<<premise1, premise2>>) THEN SyntaxError
    ELSE
    LET trees == get_trees(<<premise1, premise2>>)
    IN  Returns(recover_formula(Bin("&", trees[1], trees[2])))

\* a check that looks at the premises in the order given only
is_conjunction_intro_in_order(premise1, premise2, conclusion) ==
    IF IsBad(conclusion) THEN SyntaxError
    ELSE
    LET actual_conclusion1 == conjunction_intro(premise1, premise2)
        text == recover_formula(ParseTree(conclusion))
    IN  IF actual_conclusion1.kind = "SyntaxError" THEN SyntaxError
        ELSE ReturnsBool(actual_conclusion1.text = text)

\* only SyntaxError is named in this try block
is_conjunction_intro(premise1, premise2, conclusion) ==
    IF IsBad(conclusion) THEN SyntaxError
    ELSE
    LET actual_conclusion1 == conjunction_intro(premise1, premise2)
        actual_conclusion2 == conjunction_intro(premise2, premise1)
        text == recover_formula(ParseTree(conclusion))
    IN  IF actual_conclusion1.kind = "SyntaxError" THEN SyntaxError
        ELSE IF actual_conclusion2.kind = "SyntaxError" THEN SyntaxError
        ELSE ReturnsBool(actual_conclusion1.text = text \/ actual_conclusion2.text = text)

(***************************************************************************)
(* The callers                                                             *)
(***************************************************************************)
Inputs1 == Premises1 \cup {Malformed}
Inputs2 == Premises2 \cup {Malformed}
Inputs3 == Premises3 \cup {Malformed}

\* the statements added by an introduction rule, and the candidate
\* conclusions of the checks of the rules that take an operand apart
Operands == Comp \cup {Neg(x) : x \in Comp} \cup {Malformed}

\* premises and candidate conclusions of the check of chain implication
Conditionals == {Bin("->", x, y) : x \in Comp, y \in Comp}
                   \cup {Atom("a"), Bin("|", Atom("a"), Atom("pq")), Malformed}

\* premises and candidate conclusions of the check of dilemma
Comp3Check == {Atom("a"), Atom("pq")}
Dilemmas == {Bin(o, x, y) : o \in {"->", "|"}, x \in Comp3Check, y \in Comp3Check}
               \cup {Atom("a"), Malformed}

\* candidate conclusions of the check of conjunction introduction
Conjunctions == {Bin("&", x, y) : x \in Operands \ {Malformed}, y \in Operands \ {Malformed}}
                   \cup {Atom("a"), Malformed}

NoOutcome == [kind |-> "none", text |-> <<>>, truth |-> FALSE]

\* the frame of a caller that is not in a call
IdleFrame == [pc |-> "idle", fn |-> "none", args |-> <<>>, side |-> "none",
              trees |-> <<>>, premise1_tree |-> NoTree, conclusion_tree |-> NoTree,
              valid_application |-> TRUE, result |-> NoOutcome]

Init ==
    /\ pc = "idle"
    /\ fn = "none"
    /\ args = <<>>
    /\ side = "none"
    /\ outcome = NoOutcome
    /\ frames = [c \in Callers |-> IdleFrame]

Call(f, a, s, o) ==
    /\ pc' = "returned"
    /\ fn' = f
    /\ args' = a
    /\ side' = s
    /\ outcome' = o
    /\ UNCHANGED frames

CallModusPonens ==
    /\ pc = "idle"
    /\ \E p1 \in Inputs2, p2 \in Inputs2 :
           Call("modus_ponens", <<p1, p2>>, "none", modus_ponens(p1, p2))

CallIsModusPonens ==
    /\ pc = "idle"
    /\ \E p1 \in Inputs2, p2 \in Inputs2, c \in Operands :
           Call("is_modus_ponens", <<p1, p2, c>>, "none", is_modus_ponens(p1, p2, c))

CallModusTollens ==
    /\ pc = "idle"
    /\ \E p1 \in Inputs2, p2 \in Inputs2 :
           Call("modus_tollens", <<p1, p2>>, "none", modus_tollens(p1, p2))

CallIsModusTollens ==
    /\ pc = "idle"
    /\ \E p1 \in Inputs2, p2 \in Inputs2, c \in Operands :
           Call("is_modus_tollens", <<p1, p2, c>>, "none", is_modus_tollens(p1, p2, c))

CallChainImplication ==
    /\ pc = "idle"
    /\ \E p1 \in Inputs2, p2 \in Inputs2 :
           Call("chain_implication", <<p1, p2>>, "none", chain_implication(p1, p2))

CallIsChainImplication ==
    /\ pc = "idle"
    /\ \E p1 \in Conditionals, p2 \in Conditionals, c \in Conditionals :
           Call("is_chain_implication", <<p1, p2, c>>, "none", is_chain_implication(p1, p2, c))

CallDilemma ==
    /\ pc = "idle"
    /\ \E p1 \in Inputs3, p2 \in Inputs3, p3 \in Inputs3 :
           Call("dilemma", <<p1, p2, p3>>, "none", dilemma(p1, p2, p3))

CallIsDilemma ==
    /\ pc = "idle"
    /\ \E p1 \in Dilemmas, p2 \in Dilemmas, p3 \in Dilemmas, c \in Dilemmas :
           Call("is_dilemma", <<p1, p2, p3, c>>, "none", is_dilemma(p1, p2, p3, c))

CallDisjunctionElim ==
    /\ pc = "idle"
    /\ \E p1 \in Inputs2, p2 \in Inputs2 :
           Call("disjunction_elim", <<p1, p2>>, "none", disjunction_elim(p1, p2))

CallIsDisjunctionElim ==
    /\ pc = "idle"
    /\ \E p1 \in Inputs2, p2 \in Inputs2, c \in Operands :
           Call("is_disjunction_elim", <<p1, p2, c>>, "none", is_disjunction_elim(p1, p2, c))

CallDisjunctionIntro ==
    /\ pc = "idle"
    /\ \E p1 \in Operands, statement \in Operands, s \in Sides \cup {Omitted} :
           Call("disjunction_intro", <<p1, statement>>, s,
                disjunction_intro(p1, statement, SideParam(s)))

CallIsDisjunctionIntro ==
    /\ pc = "idle"
    /\ \E p1 \in Operands, c \in Inputs2 :
           Call("is_disjunction_intro", <<p1, c>>, "none", is_disjunction_intro(p1, c))

CallConjunctionElim ==
    /\ pc = "idle"
    /\ \E p1 \in Inputs1, s \in Sides :
           Call("conjunction_elim", <<p1>>, s, conjunction_elim(p1, s))

CallIsConjunctionElim ==
    /\ pc = "idle"
    /\ \E p1 \in Inputs1, c \in Operands :
           Call("is_conjunction_elim", <<p1, c>>, "none", is_conjunction_elim(p1, c))

CallConjunctionIntro ==
    /\ pc = "idle"
    /\ \E p1 \in Operands, p2 \in Operands :
           Call("conjunction_intro", <<p1, p2>>, "none", conjunction_intro(p1, p2))

CallIsConjunctionIntro ==
    /\ pc = "idle"
    /\ \E p1 \in Operands, p2 \in Operands, c \in Conjunctions :
           Call("is_conjunction_intro", <<p1, p2, c>>, "none", is_conjunction_intro(p1, p2, c))

\* the caller takes the result; the next call is independent of this one
Return ==
    /\ pc = "returned"
    /\ pc' = "idle"
    /\ fn' = "none"
    /\ args' = <<>>
    /\ side' = "none"
    /\ outcome' = NoOutcome
    /\ UNCHANGED frames

Next ==
    \/ CallModusPonens
    \/ CallIsModusPonens
    \/ CallModusTollens
    \/ CallIsModusTollens
    \/ CallChainImplication
    \/ CallIsChainImplication
    \/ CallDilemma
    \/ CallIsDilemma
    \/ CallDisjunctionElim
    \/ CallIsDisjunctionElim
    \/ CallDisjunctionIntro
    \/ CallIsDisjunctionIntro
    \/ CallConjunctionElim
    \/ CallIsConjunctionElim
    \/ CallConjunctionIntro
    \/ CallIsConjunctionIntro
    \/ Return

Spec == Init /\ [][Next]_vars

(***************************************************************************)
(* Several callers: is_disjunction_intro statement by statement, each call *)
(* with its own local variables, between the statements of the calls of    *)
(* the other callers                                                       *)
(***************************************************************************)
PremisesOfCallers == {Atom("a"), Neg(Atom("a")), Bin("&", Atom("a"), Atom("pq")), Malformed}

ConclusionsOfCallers ==
    {Bin("|", Atom("a"), Atom("pq")),
     Bin("|", Atom("pq"), Neg(Atom("a"))),
     Bin("|", Bin("&", Atom("a"), Atom("pq")), Atom("a")),
     Neg(Atom("a")),
     Malformed}

\* premise1_tree = premise1_tree[0] binds the local name to the variable; the
\* list that get_trees returned is written to instead
Unwrapped_in_place(frame) ==
    IF IsTop(frame.premise1_tree)
    THEN [frame EXCEPT !.premise1_tree = Atom(frame.premise1_tree.top),
                       !.trees[1] = Atom(frame.premise1_tree.top)]
    ELSE frame

\* premise1_tree = premise1_tree[0] when len(premise1_tree) == 1
Unwrapped(frame) ==
    IF IsTop(frame.premise1_tree)
    THEN [frame EXCEPT !.premise1_tree = Atom(frame.premise1_tree.top)]
    ELSE frame

\* the chain of tests on the conclusion
Matched(frame) ==
    IF ~IsOp(frame.conclusion_tree, "|") THEN FALSE
    ELSE \/ frame.conclusion_tree = Bin("|", frame.premise1_tree, frame.conclusion_tree.r)
         \/ frame.conclusion_tree = Bin("|", frame.conclusion_tree.l, frame.premise1_tree)

Enter(c) ==
    /\ frames[c].pc = "idle"
    /\ \E p1 \in PremisesOfCallers, conclusion \in ConclusionsOfCallers :
           frames' = [frames EXCEPT ![c] = [IdleFrame EXCEPT !.pc = "parse",
                                                             !.fn = "is_disjunction_intro",
                                                             !.args = <<p1, conclusion>>]]
    /\ UNCHANGED <<pc, fn, args, side, outcome>>

ParseStep(c) ==
    /\ frames[c].pc = "parse"
    /\ frames' = [frames EXCEPT ![c] =
           IF ~SyntaxOK(frames[c].args)
           THEN [@ EXCEPT !.pc = "returned", !.result = SyntaxError]
           ELSE [@ EXCEPT !.pc = "unwrap",
                          !.trees = get_trees(frames[c].args),
                          !.premise1_tree = get_trees(frames[c].args)[1],
                          !.conclusion_tree = get_trees(frames[c].args)[2]]]
    /\ UNCHANGED <<pc, fn, args, side, outcome>>

UnwrapStep(c) ==
    /\ frames[c].pc = "unwrap"
    /\ frames' = [frames EXCEPT ![c] = [Unwrapped(frames[c]) EXCEPT !.pc = "match"]]
    /\ UNCHANGED <<pc, fn, args, side, outcome>>

MatchStep(c) ==
    /\ frames[c].pc = "match"
    /\ frames' = [frames EXCEPT ![c] = [@ EXCEPT !.pc = "return",
                                                 !.valid_application = Matched(frames[c])]]
    /\ UNCHANGED <<pc, fn, args, side, outcome>>

ReturnStep(c) ==
    /\ frames[c].pc = "return"
    /\ frames' = [frames EXCEPT ![c] = [@ EXCEPT !.pc = "returned",
                                                 !.result = ReturnsBool(frames[c].valid_application)]]
    /\ UNCHANGED <<pc, fn, args, side, outcome>>

\* a call of disjunction_intro between the statements of the other calls
ApplyCall(c) ==
    /\ frames[c].pc = "idle"
    /\ \E p1 \in PremisesOfCallers, statement \in PremisesOfCallers, s \in {"right", "left"} :
           frames' = [frames EXCEPT ![c] = [IdleFrame EXCEPT
                          !.pc = "returned",
                          !.fn = "disjunction_intro",
                          !.args = <<p1, statement>>,
                          !.side = s,
                          !.result = disjunction_intro(p1, statement, s)]]
    /\ UNCHANGED <<pc, fn, args, side, outcome>>

\* the caller takes the result; nothing of the call is kept
TakeResult(c) ==
    /\ frames[c].pc = "returned"
    /\ frames' = [frames EXCEPT ![c] = IdleFrame]
    /\ UNCHANGED <<pc, fn, args, side, outcome>>

NextCallers ==
    \E c \in Callers :
        \/ Enter(c)
        \/ ParseStep(c)
        \/ UnwrapStep(c)
        \/ MatchStep(c)
        \/ ReturnStep(c)
        \/ ApplyCall(c)
        \/ TakeResult(c)

SpecCallers == Init /\ [][NextCallers]_vars

(***************************************************************************)
(* Properties                                                              *)
(***************************************************************************)
Returned(f) == pc = "returned" /\ fn = f

WellFormed == \A i \in DOMAIN args : ~IsBad(args[i])

\* the canonical text of a formula
CanonicalText(f) == recover_formula(ParseTree(f))

\* C1: modus ponens on the premises A->B and A returns the canonical text of
\* B, and is_modus_ponens on these premises with the candidate B is True,
\* for every well-formed A and B
C1_ModusPonensDerives ==
    /\ (/\ Returned("modus_ponens")
        /\ WellFormed
        /\ IsOp(args[1], "->")
        /\ args[2] = args[1].l)
       => outcome = Returns(CanonicalText(args[1].r))
    /\ (/\ Returned("is_modus_ponens")
        /\ WellFormed
        /\ IsOp(args[1], "->")
        /\ args[2] = args[1].l
        /\ args[3] = args[1].r)
       => outcome = ReturnsBool(TRUE)

C1_Witness ==
    /\ Returned("is_modus_ponens")
    /\ IsOp(args[1], "->")
    /\ args[2] = args[1].l
    /\ args[3] = args[1].r
    /\ IsAtom(args[2])
    /\ IsBin(args[3])
    /\ outcome = ReturnsBool(TRUE)

\* the rule that an is_* function applies to its premises
Applied ==
    CASE fn = "is_modus_ponens" -> modus_ponens(args[1], args[2])
      [] fn = "is_modus_tollens" -> modus_tollens(args[1], args[2])
      [] fn = "is_chain_implication" -> chain_implication(args[1], args[2])
      [] fn = "is_dilemma" -> dilemma(args[1], args[2], args[3])
      [] fn = "is_disjunction_elim" -> disjunction_elim(args[1], args[2])
      [] fn = "is_conjunction_elim" -> conjunction_elim(args[1], "right")
      [] OTHER -> NoOutcome

\* C2: when the rule raises rule-inapplicable on well-formed premises, the
\* is_* function of the rule, on the same premises and any well-formed
\* candidate conclusion, returns False and raises nothing
C2_InapplicableIsFalse ==
    (/\ pc = "returned"
     /\ WellFormed
     /\ Applied = RuleError)
    => outcome = ReturnsBool(FALSE)

C2_Witness ==
    /\ Returned("is_dilemma")
    /\ WellFormed
    /\ Applied = RuleError
    /\ IsOp(args[1], "|")
    /\ outcome = ReturnsBool(FALSE)

\* C3: every rule and every is_* function raises a syntax error when one of
\* its formula inputs is malformed, whatever the other inputs are
C3_MalformedRaisesSyntaxError ==
    (pc = "returned" /\ ~WellFormed) => outcome = SyntaxError

C3_Witness ==
    /\ Returned("is_modus_tollens")
    /\ IsBad(args[1])
    /\ IsAtom(args[2])
    /\ ~IsBad(args[3])
    /\ outcome = SyntaxError

ValidSide == SideParam(side) = "right" \/ SideParam(side) = "left"

TakesSide == fn \in {"disjunction_intro", "conjunction_elim"}

\* C4 as stated: in disjunction_intro and conjunction_elim a side other than
\* 'right' and 'left' ends in the argument error whatever the formula inputs
\* are, a malformed one included
C4_ArgumentErrorBeforeParsing ==
    (pc = "returned" /\ TakesSide /\ ~ValidSide) => outcome = ValueError

\* C4 amended: in disjunction_intro and conjunction_elim a side other than
\* 'right' and 'left' ends in the argument error whenever the formula inputs
\* are well-formed, whether or not the premise matches the rule; the inputs
\* are parsed before the side is looked at, so a malformed input ends in the
\* syntax error
C4_ArgumentErrorAfterParsing ==
    (pc = "returned" /\ TakesSide /\ ~ValidSide)
    => outcome = IF WellFormed THEN ValueError ELSE SyntaxError

C4_Witness ==
    /\ Returned("conjunction_elim")
    /\ side = "middle"
    /\ IsOp(args[1], "|")
    /\ outcome = ValueError

Candidates == Operands \ {Malformed}

\* C5 as stated: an argument error raised by conjunction_elim for an invalid
\* side is raised by is_conjunction_elim on the same premise as well
C5_IsRaisesArgumentError ==
    (Returned("conjunction_elim") /\ outcome = ValueError)
    => \A c \in Candidates : is_conjunction_elim(args[1], c) = ValueError

\* C5 amended: conjunction_elim raises the argument error for an invalid side
\* on a well-formed premise; is_conjunction_elim takes no side, applies
\* conjunction_elim with 'right' and 'left' only and never ends in an
\* argument error: it returns a boolean or raises a syntax error
C5_IsNeverRaisesArgumentError ==
    /\ Returned("is_conjunction_elim") => outcome.kind \in {"bool", "SyntaxError"}
    /\ (Returned("conjunction_elim") /\ WellFormed /\ ~ValidSide)
       => /\ outcome = ValueError
          /\ \A c \in Candidates : is_conjunction_elim(args[1], c).kind = "bool"

C5_Witness ==
    /\ Returned("conjunction_elim")
    /\ side = "middle"
    /\ IsOp(args[1], "&")
    /\ outcome = ValueError
    /\ \E c \in Candidates : is_conjunction_elim(args[1], c) = ReturnsBool(TRUE)

\* the premises are A->B and B->C, in this order
Chained == /\ WellFormed
           /\ IsOp(args[1], "->")
           /\ IsOp(args[2], "->")
           /\ args[1].r = args[2].l

\* C6 as stated: chain_implication on A->B and B->C returns the canonical
\* text of A->C, and the same with the premises swapped, for all A, B and C
C6_ChainOrderIndependent ==
    (Returned("chain_implication") /\ Chained)
    => /\ outcome = Returns(CanonicalText(Bin("->", args[1].l, args[2].r)))
       /\ chain_implication(args[2], args[1]) = outcome

\* C6 amended: chain_implication on A->B and B->C returns the canonical text
\* of A->C; with the premises swapped it returns the same when C is not
\* structurally equal to A, and the canonical text of B->B when C is
\* structurally equal to A
C6_ChainOrderIndependentUnlessCycle ==
    (Returned("chain_implication") /\ Chained)
    => /\ outcome = Returns(CanonicalText(Bin("->", args[1].l, args[2].r)))
       /\ chain_implication(args[2], args[1]) =
             IF args[2].r = args[1].l
             THEN Returns(CanonicalText(Bin("->", args[2].l, args[1].r)))
             ELSE outcome

C6_Witness ==
    /\ Returned("chain_implication")
    /\ Chained
    /\ args[2].r # args[1].l
    /\ IsBin(args[1].l)
    /\ chain_implication(args[2], args[1]) = outcome
    /\ outcome.kind = "return"

\* args[i] is A|B, args[j] is A->P and args[k] is B->Q
DilemmaRoles(i, j, k) ==
    /\ i # j /\ i # k /\ j # k
    /\ IsOp(args[i], "|")
    /\ IsOp(args[j], "->")
    /\ IsOp(args[k], "->")
    /\ args[j].l = args[i].l
    /\ args[k].l = args[i].r

\* C7: dilemma on A|B, A->P and B->Q, in any of the 6 orders, returns the
\* canonical text of P|Q, for all A, B, P and Q
C7_DilemmaAnyOrder ==
    (Returned("dilemma") /\ WellFormed)
    => \A i \in 1..3, j \in 1..3, k \in 1..3 :
          DilemmaRoles(i, j, k)
          => outcome = Returns(CanonicalText(Bin("|", args[j].r, args[k].r)))

\* C8: dilemma succeeds only when exactly one premise is a disjunction and
\* the two others are conditionals, one on the left disjunct and the other
\* on the right disjunct
C8_DilemmaOnlyOnPattern ==
    (Returned("dilemma") /\ outcome.kind = "return")
    => /\ Cardinality({i \in 1..3 : IsOp(args[i], "|")}) = 1
       /\ \E i \in 1..3, j \in 1..3, k \in 1..3 : DilemmaRoles(i, j, k)

\* x is a conditional and y the negation of its consequent
TollensRoles(x, y) == IsOp(x, "->") /\ IsNeg(y) /\ y.neg = x.r

\* C9: modus_tollens succeeds exactly when one premise is a conditional and
\* the other the negation of its consequent, in either order; it then
\* returns the canonical text of the negation of the antecedent, and raises
\* rule-inapplicable otherwise
C9_ModusTollensExactly ==
    (Returned("modus_tollens") /\ WellFormed)
    => outcome = IF TollensRoles(args[1], args[2])
                 THEN Returns(CanonicalText(Neg(args[1].l)))
                 ELSE IF TollensRoles(args[2], args[1])
                 THEN Returns(CanonicalText(Neg(args[2].l)))
                 ELSE RuleError

C9_Witness ==
    /\ Returned("modus_tollens")
    /\ TollensRoles(args[2], args[1])
    /\ IsBin(args[2].l)
    /\ outcome = Returns(CanonicalText(Neg(args[2].l)))

\* x is a disjunction and y the negation of one of its disjuncts
ElimRoles(x, y) == IsOp(x, "|") /\ (y = Neg(x.l) \/ y = Neg(x.r))

\* the disjunct that is left, the negation of the left one being looked for
\* first
ElimResult(x, y) == IF y = Neg(x.l) THEN x.r ELSE x.l

\* C10: disjunction_elim succeeds exactly when one premise is a disjunction
\* and the other the negation of one of its disjuncts, in either order; it
\* then returns the canonical text of the other disjunct (the right one when
\* the negation matches both), and raises rule-inapplicable otherwise
C10_DisjunctionElimExactly ==
    (Returned("disjunction_elim") /\ WellFormed)
    => outcome = IF ElimRoles(args[1], args[2])
                 THEN Returns(CanonicalText(ElimResult(args[1], args[2])))
                 ELSE IF ElimRoles(args[2], args[1])
                 THEN Returns(CanonicalText(ElimResult(args[2], args[1])))
                 ELSE RuleError

C10_Witness ==
    /\ Returned("disjunction_elim")
    /\ ElimRoles(args[1], args[2])
    /\ args[2] = Neg(args[1].r)
    /\ args[1].l # args[1].r
    /\ IsBin(args[1].l)
    /\ outcome = Returns(CanonicalText(args[1].l))

\* an operand of the conclusion of disjunction_intro: in parentheses exactly
\* when the formula is a binary node
Wrapped(f) ==
    IF IsBin(f) THEN <<"(">> \o CanonicalText(f) \o <<")">> ELSE CanonicalText(f)

\* C11: disjunction_intro on well-formed inputs and a valid side returns
\* premise1|statement for the side 'right' (the default) and
\* statement|premise1 for the side 'left', each operand in parentheses exactly
\* when it is a binary node
C11_DisjunctionIntroText ==
    (Returned("disjunction_intro") /\ WellFormed /\ ValidSide)
    => outcome = IF SideParam(side) = "left"
                 THEN Returns(Wrapped(args[2]) \o <<"|">> \o Wrapped(args[1]))
                 ELSE Returns(Wrapped(args[1]) \o <<"|">> \o Wrapped(args[2]))

C11_Witness ==
    /\ Returned("disjunction_intro")
    /\ side = Omitted
    /\ IsBin(args[1])
    /\ IsNeg(args[2])
    /\ IsBin(args[2].neg)
    /\ outcome = Returns(Wrapped(args[1]) \o <<"|">> \o CanonicalText(args[2]))

\* C12: is_disjunction_intro is True exactly when the conclusion is a
\* disjunction and premise1 is structurally equal to its left or to its right
\* disjunct, whatever the shape of premise1; it is True for the conclusion
\* that disjunction_intro writes for premise1
C12_IsDisjunctionIntroExactly ==
    /\ (Returned("is_disjunction_intro") /\ WellFormed)
       => outcome = ReturnsBool(/\ IsOp(args[2], "|")
                                /\ (args[1] = args[2].l \/ args[1] = args[2].r))
    /\ (Returned("disjunction_intro") /\ outcome.kind = "return")
       => is_disjunction_intro(args[1], Parse(outcome.text)) = ReturnsBool(TRUE)

C12_Witness ==
    /\ Returned("is_disjunction_intro")
    /\ IsAtom(args[1])
    /\ IsOp(args[2], "|")
    /\ args[2].r = args[1]
    /\ args[2].l # args[1]
    /\ outcome = ReturnsBool(TRUE)

\* reading the text written for a formula gives the formula back
ParseReadsCanonicalText ==
    pc = "returned" => \A i \in DOMAIN args :
                          ~IsBad(args[i]) => Parse(CanonicalText(args[i])) = args[i]

\* C13: conjunction_intro on well-formed premises returns the canonical text
\* of premise1&premise2 in the order given; is_conjunction_intro is True
\* exactly when the canonical text of the candidate is that of
\* premise1&premise2 or that of premise2&premise1, and gives the same with the
\* premises swapped, for all inputs
C13_ConjunctionIntro ==
    /\ (Returned("conjunction_intro") /\ WellFormed)
       => outcome = Returns(CanonicalText(Bin("&", args[1], args[2])))
    /\ (Returned("is_conjunction_intro") /\ WellFormed)
       => outcome = ReturnsBool(
              \/ CanonicalText(args[3]) = CanonicalText(Bin("&", args[1], args[2]))
              \/ CanonicalText(args[3]) = CanonicalText(Bin("&", args[2], args[1])))
    /\ Returned("is_conjunction_intro")
       => is_conjunction_intro(args[2], args[1], args[3]) = outcome

C13_Witness ==
    /\ Returned("is_conjunction_intro")
    /\ WellFormed
    /\ args[1] # args[2]
    /\ IsBin(args[1])
    /\ args[3] = Bin("&", args[2], args[1])
    /\ outcome = ReturnsBool(TRUE)

\* C14: conjunction_elim with a valid side returns the canonical text of the
\* right conjunct for 'right' and of the left conjunct for 'left', and raises
\* rule-inapplicable when the premise is not a conjunction;
\* is_conjunction_elim is True exactly when the premise is a conjunction and
\* the canonical text of the candidate is that of one of the conjuncts
C14_ConjunctionElim ==
    /\ (Returned("conjunction_elim") /\ WellFormed /\ ValidSide)
       => outcome = IF ~IsOp(args[1], "&") THEN RuleError
                    ELSE IF side = "right" THEN Returns(CanonicalText(args[1].r))
                    ELSE Returns(CanonicalText(args[1].l))
    /\ (Returned("is_conjunction_elim") /\ WellFormed)
       => outcome = ReturnsBool(
              /\ IsOp(args[1], "&")
              /\ \/ CanonicalText(args[2]) = CanonicalText(args[1].l)
                 \/ CanonicalText(args[2]) = CanonicalText(args[1].r))

C14_Witness ==
    /\ Returned("conjunction_elim")
    /\ side = "left"
    /\ IsOp(args[1], "&")
    /\ args[1].l # args[1].r
    /\ IsBin(args[1].l)
    /\ outcome = Returns(CanonicalText(args[1].l))

\* C16: chain_implication raises rule-inapplicable unless both premises are
\* conditionals; it looks for premise1.right = premise2.left first and
\* returns premise1.left->premise2.right, then for premise2.right =
\* premise1.left and returns premise2.left->premise1.right, and raises
\* rule-inapplicable when neither holds
C16_ChainFirstOrientationWins ==
    (Returned("chain_implication") /\ WellFormed)
    => outcome = IF ~(IsOp(args[1], "->") /\ IsOp(args[2], "->")) THEN RuleError
                 ELSE IF args[1].r = args[2].l
                 THEN Returns(CanonicalText(Bin("->", args[1].l, args[2].r)))
                 ELSE IF args[2].r = args[1].l
                 THEN Returns(CanonicalText(Bin("->", args[2].l, args[1].r)))
                 ELSE RuleError

C16_Witness ==
    /\ Returned("chain_implication")
    /\ Chained
    /\ args[2].r = args[1].l
    /\ args[1].l # args[1].r
    /\ outcome = Returns(CanonicalText(Bin("->", args[1].l, args[1].l)))

\* args[j] and args[k] can be taken as A->P and B->Q, with P different from Q
DilemmaConditionals(j, k) ==
    /\ \E i \in 1..3 : DilemmaRoles(i, j, k)
    /\ args[j].r # args[k].r

\* C17: on the premises A|B, A->P and B->Q, in any order, with P and Q
\* structurally different, is_dilemma is True for the candidate P|Q and False
\* for the candidate Q|P
C17_IsDilemmaOrderOfDisjuncts ==
    (/\ Returned("is_dilemma")
     /\ WellFormed
     /\ \E j \in 1..3, k \in 1..3 : DilemmaConditionals(j, k))
    => \E j \in 1..3, k \in 1..3 :
          /\ DilemmaConditionals(j, k)
          /\ is_dilemma(args[1], args[2], args[3], Bin("|", args[j].r, args[k].r))
                = ReturnsBool(TRUE)
          /\ is_dilemma(args[1], args[2], args[3], Bin("|", args[k].r, args[j].r))
                = ReturnsBool(FALSE)

\* x is a conditional and y its antecedent
PonensRoles(x, y) == IsOp(x, "->") /\ y = x.l

\* the premises fit the rule called, in one order or the other
FitsRule ==
    CASE fn = "modus_ponens" ->
            PonensRoles(args[1], args[2]) \/ PonensRoles(args[2], args[1])
      [] fn = "modus_tollens" ->
            TollensRoles(args[1], args[2]) \/ TollensRoles(args[2], args[1])
      [] fn = "disjunction_elim" ->
            ElimRoles(args[1], args[2]) \/ ElimRoles(args[2], args[1])
      [] OTHER -> FALSE

\* the same call with the premises swapped
SwappedCall ==
    CASE fn = "modus_ponens" -> modus_ponens(args[2], args[1])
      [] fn = "modus_tollens" -> modus_tollens(args[2], args[1])
      [] fn = "disjunction_elim" -> disjunction_elim(args[2], args[1])
      [] OTHER -> NoOutcome

\* C18: for modus_ponens, modus_tollens and disjunction_elim on well-formed
\* premises, the call with the premises swapped has the same outcome (the
\* same conclusion, or rule-inapplicable), and the call succeeds whenever the
\* premises fit the rule in one order or the other
C18_LengthHeuristicHarmless ==
    (/\ pc = "returned"
     /\ fn \in {"modus_ponens", "modus_tollens", "disjunction_elim"}
     /\ WellFormed)
    => /\ SwappedCall = outcome
       /\ outcome.kind \in {"return", "Exception"}
       /\ FitsRule => outcome.kind = "return"

\* premises of the same rendered length, one of them a conditional
C18_Witness ==
    /\ Returned("modus_ponens")
    /\ WellFormed
    /\ IsOp(args[1], "->")
    /\ ~IsOp(args[2], "->")
    /\ Len(CanonicalText(args[1])) = Len(CanonicalText(args[2]))
    /\ SwappedCall = outcome
    /\ outcome = RuleError

\* the outcome of the call of a frame, made alone
Alone(frame) ==
    CASE frame.fn = "is_disjunction_intro" ->
            is_disjunction_intro(frame.args[1], frame.args[2])
      [] frame.fn = "disjunction_intro" ->
            disjunction_intro(frame.args[1], frame.args[2], frame.side)
      [] OTHER -> NoOutcome

\* the call of the frame has parsed its statements
HasTrees(frame) ==
    \/ frame.pc \in {"unwrap", "match", "return"}
    \/ /\ frame.pc = "returned"
       /\ frame.fn = "is_disjunction_intro"
       /\ frame.result.kind = "bool"

====
